---- MODULE Spec2Model ----
(***************************************************************************)
(* The BeER manager service (src/src/beer/manager/service.py) with the     *)
(* answer envelope and permission levels of src/src/beer/manager/api.py.   *)
(*                                                                         *)
(* State: the Registry (User and Worker records), the orchestrator's       *)
(* config store and service list, a clock, the request threads with their  *)
(* local variables, and the request that completed last with its answer.   *)
(* Handlers that only touch the Registry are one step; set_ssh_key and     *)
(* dispatch take one step per blocking call to the orchestrator, so that   *)
(* two requests can interleave there.                                      *)
(***************************************************************************)
EXTENDS Integers, Sequences, FiniteSets, TLC

VARIABLES users, workers, configs, nextId, services, clock,
          pc, req, last, started, joins, faults

vars == <<users, workers, configs, nextId, services, clock,
          pc, req, last, started, joins, faults>>

(***************************************************************************)
(* Bounds of the model: user requests, worker joins, injected backend      *)
(* failures, seconds of clock.                                             *)
(***************************************************************************)
MaxRequests == 3
MaxJoins == 1
MaxFaults == 1
MaxClock == 1

Users == {"u0", "u1"}
Usernames == {"nick"}
Keys == {"k1", "k2"}
Hosts == {"w1"}
Threads == {"t1", "t2"}
ThreadNo == [p \in Threads |-> IF p = "t1" THEN 1 ELSE 2]
Durations == {1}
GpuRequests == {<<[uuid |-> "GPU-a"], [uuid |-> "GPU-b"]>>}

(***************************************************************************)
(* api.py                                                                  *)
(***************************************************************************)
OWNER == 0
ADMIN == 1
USER == 2

PermissionLevel == <<OWNER, ADMIN, USER>>

Max(a, b) == IF a >= b THEN a ELSE b

\* list(PermissionLevel).index(level), 0-based
LevelIndex(level) == (CHOOSE i \in 1..Len(PermissionLevel) : PermissionLevel[i] = level) - 1

higher_permission(level) == PermissionLevel[Max(0, LevelIndex(level) - 1) + 1]

\* The members the enum defines; a handler that names any other member
\* fails with AttributeError when it evaluates ReturnCodes.<NAME>.
ReturnCodes ==
    {"DB_ERROR", "PERMISSION_ERROR", "ALREADY_REGISTERED_ERROR", "NOT_REGISTERED_ERROR",
     "KEY_MISSING_ERROR", "WORKER_INFO", "REGISTRATION_SUCCESSFUL", "PERMISSION_OK",
     "DISPATCH_OK", "RESOURCES"}

\* `data` is modelled by the set of its keys; NoData is an answer built without it.
NoData == {"<missing>"}
NoCode == "<none>"

Raised(exc) == [kind |-> "raised", code |-> exc, data |-> NoData]

\* ManagerAnswer(code=ReturnCodes.<code>, data=<data>): `data` has no default,
\* so leaving it out fails pydantic's validation.
ManagerAnswer(code, data) ==
    IF code \notin ReturnCodes THEN Raised("AttributeError")
    ELSE IF data = NoData THEN Raised("ValidationError")
    ELSE [kind |-> "answer", code |-> code, data |-> data]

None == [kind |-> "none", code |-> NoCode, data |-> NoData]

(***************************************************************************)
(* The Registry (beer.manager.beer_db): User and Worker records.           *)
(***************************************************************************)
\* permission_level of a record that update_details created: not registered yet.
NoLevel == -1
NoKey == "null"
NoName == "null"

NoRow == [exists |-> FALSE, permission_level |-> NoLevel,
          public_ssh_key |-> NoKey, username |-> NoName]

\* beer_db.init(owner_id=...): a fresh Registry holds the owner alone.
OwnerId == "u0"

RequestUser(user_id, username) == [user_id |-> user_id, username |-> username]

\* User.update_details: upsert of the contact-info fields.
User_update_details(us, user_id, username) ==
    [us EXCEPT ![user_id] =
        IF @.exists THEN [@ EXCEPT !.username = username]
        ELSE [NoRow EXCEPT !.exists = TRUE, !.username = username]]

User_is_registered(us, user_id) ==
    us[user_id].exists /\ us[user_id].permission_level # NoLevel

\* User.permission_check: the stored level is at least as strong as required.
User_permission_check(us, user_id, required_level) ==
    /\ User_is_registered(us, user_id)
    /\ us[user_id].permission_level <= required_level

\* User.register: sets the level, creating the record when there is none.
User_register(us, user_id, permission_level) ==
    [us EXCEPT ![user_id] =
        IF @.exists THEN [@ EXCEPT !.permission_level = permission_level]
        ELSE [NoRow EXCEPT !.exists = TRUE, !.permission_level = permission_level]]

\* user.save() of the whole record: it writes the level of a new record too.
User_save_all(us, user_id, ssh_key) ==
    [us EXCEPT ![user_id] = [@ EXCEPT !.public_ssh_key = ssh_key, !.permission_level = USER]]

\* user.public_ssh_key = ssh_key; user.save(only=[User.public_ssh_key])
User_save_key(us, user_id, ssh_key) ==
    [us EXCEPT ![user_id].public_ssh_key = ssh_key]

(***************************************************************************)
(* service.py: permission_check.  It first refreshes the caller's record   *)
(* (permission_check_users is the Registry after that), then answers:      *)
(* None when the caller is admitted, otherwise the answer it builds.       *)
(***************************************************************************)
permission_check_users(request_user) ==
    User_update_details(users, request_user.user_id, request_user.username)

permission_check(request_user, required_level) ==
    LET us == permission_check_users(request_user) IN
    IF required_level = USER /\ ~User_is_registered(us, request_user.user_id)
    THEN ManagerAnswer("NOT_REGISTERED_ERROR", {"admins"})
    ELSE IF ~User_permission_check(us, request_user.user_id, required_level)
    THEN ManagerAnswer("PERMISSION_ERROR", NoData)
    ELSE None

(***************************************************************************)
(* Request threads.  req[p] holds the request thread p is serving and the  *)
(* handler's local variables; `last` is the request that completed most    *)
(* recently, with the answer it got (or the exception that ended it) and   *)
(* the source line it ended at.                                            *)
(***************************************************************************)
NoId == 0

\* What node.reload() reports of a node: Status.State and Spec.Availability.
NodeStates == {"ready", "down"}
NodeAvailabilities == {"active", "drain"}
NodeAttrs == [Hosts -> [State : NodeStates, Availability : NodeAvailabilities]]
NoNodes == [h \in Hosts |-> [State |-> "ready", Availability |-> "active"]]
NoFlags == <<TRUE, TRUE>>

NoReq == [op |-> "none", caller |-> OwnerId, target |-> OwnerId, level |-> USER,
          key |-> NoKey, host |-> "w1", duration |-> 0, gpus |-> <<>>,
          cfg |-> NoId, now |-> 0,
          required |-> USER, lvl |-> NoLevel, admit |-> "none",
          mutated |-> FALSE, overlap |-> FALSE, preT |-> NoRow,
          nodes |-> NoNodes, flags |-> NoFlags, listed |-> {}]

\* What is kept of a completed request: who asked what, what the permission
\* check decided, whether the handler mutated anything, how the target's
\* record compares with what it was when the request arrived, and the answer;
\* of a /list_resources also the flags, what the nodes reported and the
\* hostnames of the answer's "workers".  `raced` are the users of whom two
\* set_ssh_key requests have been served at the same time so far.
NoLast == [op |-> "none", caller |-> OwnerId, target |-> OwnerId, level |-> USER,
           required |-> USER, lvl |-> NoLevel, admit |-> "none",
           mutated |-> FALSE, overlap |-> FALSE,
           wasRegistered |-> FALSE, isRegistered |-> FALSE,
           hadKey |-> FALSE, hasKey |-> FALSE,
           sameLevel |-> TRUE, sameKey |-> TRUE, sameRecord |-> TRUE,
           nodes |-> NoNodes, flags |-> NoFlags, listed |-> {},
           raced |-> {},
           site |-> 0, kind |-> "none", code |-> NoCode, data |-> NoData]

Registered(row) == row.exists /\ row.permission_level # NoLevel

\* check_ssh_key's is_set, on a User record.
hasKey(row) == row.public_ssh_key # NoKey

Completed(r, site, answer, postT) ==
    [op |-> r.op, caller |-> r.caller, target |-> r.target, level |-> r.level,
     required |-> r.required, lvl |-> r.lvl, admit |-> r.admit,
     mutated |-> r.mutated, overlap |-> r.overlap,
     wasRegistered |-> Registered(r.preT), isRegistered |-> Registered(postT),
     hadKey |-> hasKey(r.preT), hasKey |-> hasKey(postT),
     sameLevel |-> (postT.permission_level = r.preT.permission_level),
     sameKey |-> (postT.public_ssh_key = r.preT.public_ssh_key),
     sameRecord |-> (postT = r.preT),
     nodes |-> r.nodes, flags |-> r.flags, listed |-> r.listed,
     raced |-> last.raced \cup (IF r.op = "set_ssh_key" /\ r.overlap THEN {r.caller} ELSE {}),
     site |-> site, kind |-> answer.kind, code |-> answer.code, data |-> answer.data]

\* The request as the handler receives it.  `lvl` is the caller's stored level
\* and `preT` the target's record when the request arrives; `admit`, `mutated`
\* and `overlap` record what happened while it was served.
NewReq(op, caller, target, required) ==
    [NoReq EXCEPT !.op = op, !.caller = caller, !.target = target,
                  !.required = required,
                  !.lvl = users[caller].permission_level,
                  !.preT = users[target]]

Admit(chk) == IF chk = None THEN "ok" ELSE "denied"

Admitted(r, chk) == [r EXCEPT !.admit = Admit(chk)]

\* A request is served by the first free thread of the pool.
FirstFree(p) ==
    /\ pc[p] = "idle"
    /\ \A q \in Threads : pc[q] = "idle" => ThreadNo[p] <= ThreadNo[q]

\* A user's request arrives.
Begin(p) ==
    /\ FirstFree(p)
    /\ started < MaxRequests
    /\ started' = started + 1
    /\ joins' = joins

\* A worker node's /join arrives.
BeginJoin(p) ==
    /\ FirstFree(p)
    /\ joins < MaxJoins
    /\ joins' = joins + 1
    /\ started' = started

\* The request ends at source line `site` with `answer`; us is the Registry then.
Return(p, r, site, answer, us) ==
    /\ pc' = [pc EXCEPT ![p] = "idle"]
    /\ req' = [req EXCEPT ![p] = NoReq]
    /\ last' = Completed(r, site, answer, us[r.target])

Goto(p, r, label) ==
    /\ pc' = [pc EXCEPT ![p] = label]
    /\ req' = [req EXCEPT ![p] = r]
    /\ last' = last

\* A backend call may fail; the model injects at most MaxFaults failures.
FaultChoices == IF faults < MaxFaults THEN {FALSE, TRUE} ELSE {FALSE}

Fault(fail) == faults' = IF fail THEN faults + 1 ELSE faults

NoFault(fail) == ~fail /\ faults' = faults

Init ==
    /\ users = [u \in Users |->
                  IF u = OwnerId THEN [NoRow EXCEPT !.exists = TRUE, !.permission_level = OWNER]
                  ELSE NoRow]
    /\ workers = {}
    /\ configs = {}
    /\ nextId = 1
    /\ services = {}
    /\ clock = 0
    /\ pc = [p \in Threads |-> "idle"]
    /\ req = [p \in Threads |-> NoReq]
    /\ last = NoLast
    /\ started = 0
    /\ joins = 0
    /\ faults = 0

(***************************************************************************)
(* /join                                                                   *)
(***************************************************************************)
add_worker(p, hostname) ==
    /\ BeginJoin(p)
    /\ \E fail \in FaultChoices :
        LET r == [NewReq("join", OwnerId, OwnerId, USER) EXCEPT !.host = hostname] IN
        /\ Fault(fail)
        /\ IF fail
           THEN /\ workers' = workers
                /\ Return(p, r, 65, ManagerAnswer("DB_ERROR", {"message"}), users)
           ELSE /\ workers' = workers \cup {hostname}
                /\ Return(p, [r EXCEPT !.mutated = TRUE], 63,
                          ManagerAnswer("WORKER_INFO", {"info"}), users)
    /\ UNCHANGED <<users, configs, nextId, services, clock>>

(***************************************************************************)
(* /set_permission                                                         *)
(***************************************************************************)
set_permission(p, request_user, user_id, permission_level) ==
    /\ Begin(p)
    /\ \E fail \in FaultChoices :
        LET required == higher_permission(permission_level)
            chk == permission_check(request_user, required)
            us == permission_check_users(request_user)
            r == Admitted([NewReq("set_permission", request_user.user_id, user_id, required)
                             EXCEPT !.level = permission_level], chk)
        IN
        IF chk.kind = "raised"
        THEN /\ NoFault(fail)
             /\ users' = us
             /\ Return(p, r, 89, chk, us)
        ELSE IF chk = None  \* `if not permission_check(...)`: None is falsy
        THEN /\ NoFault(fail)
             /\ users' = us
             /\ Return(p, r, 90, ManagerAnswer("PERMISSION_ERROR", {}), us)
        ELSE IF ~User_is_registered(us, user_id)
        THEN /\ NoFault(fail)
             /\ users' = us
             /\ Return(p, r, 93, ManagerAnswer("NOT_REGISTERED_ERROR", {"user_id"}), us)
        ELSE /\ Fault(fail)
             /\ IF fail
                THEN /\ users' = us
                     /\ Return(p, r, 104, ManagerAnswer("DB_ERROR", {"args"}), us)
                ELSE /\ users' = User_register(us, user_id, permission_level)
                     /\ Return(p, [r EXCEPT !.mutated = TRUE], 98,
                               ManagerAnswer("REGISTRATION_SUCCESSFUL", {"user_id", "permission_level"}),
                               User_register(us, user_id, permission_level))
    /\ UNCHANGED <<workers, configs, nextId, services, clock>>

(***************************************************************************)
(* /register_user                                                          *)
(***************************************************************************)
\* register_user without its is_registered test: it registers again.
register_user_again(p, request_user, user_id) ==
    /\ Begin(p)
    /\ \E fail \in FaultChoices :
        LET chk == permission_check(request_user, ADMIN)
            us == permission_check_users(request_user)
            r == Admitted(NewReq("register_user", request_user.user_id, user_id, ADMIN), chk)
        IN
        IF chk # None
        THEN /\ NoFault(fail)
             /\ users' = us
             /\ Return(p, r, 112, chk, us)
        ELSE /\ Fault(fail)
             /\ IF fail
                THEN /\ users' = us
                     /\ Return(p, r, 122, ManagerAnswer("DB_ERROR", {"args"}), us)
                ELSE /\ users' = User_register(us, user_id, USER)
                     /\ Return(p, [r EXCEPT !.mutated = TRUE], 120,
                               ManagerAnswer("REGISTRATION_SUCCESSFUL", {"user_id"}),
                               User_register(us, user_id, USER))
    /\ UNCHANGED <<workers, configs, nextId, services, clock>>

register_user(p, request_user, user_id) ==
    /\ Begin(p)
    /\ \E fail \in FaultChoices :
        LET chk == permission_check(request_user, ADMIN)
            us == permission_check_users(request_user)
            r == Admitted(NewReq("register_user", request_user.user_id, user_id, ADMIN), chk)
        IN
        IF chk # None
        THEN /\ NoFault(fail)
             /\ users' = us
             /\ Return(p, r, 112, chk, us)
        ELSE IF User_is_registered(us, user_id)
        THEN /\ NoFault(fail)
             /\ users' = us
             /\ Return(p, r, 115, ManagerAnswer("ALREADY_REGISTERED_ERROR", {"user_id"}), us)
        ELSE /\ Fault(fail)
             /\ IF fail
                THEN /\ users' = us
                     /\ Return(p, r, 122, ManagerAnswer("DB_ERROR", {"args"}), us)
                ELSE /\ users' = User_register(us, user_id, USER)
                     /\ Return(p, [r EXCEPT !.mutated = TRUE], 120,
                               ManagerAnswer("REGISTRATION_SUCCESSFUL", {"user_id"}),
                               User_register(us, user_id, USER))
    /\ UNCHANGED <<workers, configs, nextId, services, clock>>

(***************************************************************************)
(* /check_ssh_key                                                          *)
(***************************************************************************)
check_ssh_key(p, request_user) ==
    /\ Begin(p)
    /\ LET chk == permission_check(request_user, USER)
           us == permission_check_users(request_user)
           r == Admitted(NewReq("check_ssh_key", request_user.user_id, request_user.user_id, USER), chk)
       IN
       /\ users' = us
       /\ IF chk # None
          THEN Return(p, r, 167, chk, us)
          ELSE Return(p, r, 171, ManagerAnswer("KEY_CHECK", {"is_set"}), us)
    /\ UNCHANGED <<workers, configs, nextId, services, clock, faults>>

(***************************************************************************)
(* The orchestrator as the service sees it through the docker client:      *)
(* configs (the secret store) and services (the dispatched workloads).     *)
(* A config is [id, name, data] (and the user whose request created it);   *)
(* the store refuses a second config of the same name and refuses to       *)
(* remove a config a service refers to.                                    *)
(***************************************************************************)
CONFIG_PREFIX == "beer_ssh-key_"
SWARM_RESOURCE == "DOCKER_RESOURCE_GPU"

\* A slip in the name: every user's secret gets the owner's name.
config_name_owner(user_id) == <<CONFIG_PREFIX, OwnerId>>

config_name(user_id) == <<CONFIG_PREFIX, user_id>>

ConfigIds == {c.id : c \in configs}

ConfigNames == {c.name : c \in configs}

ConfigById(id) == CHOOSE c \in configs : c.id = id

\* client.configs.get(name)
ConfigByName(name) == CHOOSE c \in configs : c.name = name

ConfigInUse(id) == \E s \in services : s.config_id = id

\* Instants are datetimes as the handler holds them (datetime.fromtimestamp:
\* local wall-clock time), counted in seconds.
\* A format without the seconds, '%m%d%Y%H%M'.
strftime_minutes(t) == <<t \div 86400, (t \div 3600) % 24, (t \div 60) % 60, 0>>

\* now.strftime('%m%d%Y%H%M%S'): the date, then hour, minute and second.
strftime(t) == <<t \div 86400, (t \div 3600) % 24, (t \div 60) % 60, t % 60>>

\* datetime.strptime(label, '%m%d%Y%H%M%S'), what a reader of the label does.
strptime(label) == label[1] * 86400 + label[2] * 3600 + label[3] * 60 + label[4]

\* timedelta(days=expected_duration) in place of hours.
expire_days(now, expected_duration) == now + 86400 * expected_duration

\* now + timedelta(hours=expected_duration)
expire(now, expected_duration) == now + 3600 * expected_duration

ServiceNames == {s.name : s \in services}

\* The descriptor client.services.create is given; the name "{user_id}_{stamp}"
\* is the pair of its parts (the stamp has a fixed width).  `now` is the
\* instant of the dispatch, kept with the workload.
ServiceSpec(job, now, cfg) ==
    [name |-> <<job.user_id, strftime(now)>>,
     now |-> now,
     label_user_id |-> job.user_id,
     label_expire |-> strftime(expire(now, job.expected_duration)),
     constraint |-> job.worker_hostname,
     env |-> [i \in DOMAIN job.gpus |-> <<SWARM_RESOURCE, job.gpus[i].uuid>>],
     config_id |-> cfg,
     config_name |-> config_name(job.user_id)]

(***************************************************************************)
(* /set_ssh_key: permission check and configs.get; remove; create;         *)
(* reload and name check; save.                                            *)
(***************************************************************************)
\* Another thread is serving a set_ssh_key of the same user.
Overlaps(q, user_id, ssh_key) ==
    /\ pc[q] # "idle"
    /\ req[q].op = "set_ssh_key"
    /\ req[q].caller = user_id

set_ssh_key(p, request_user, ssh_key) ==
    /\ Begin(p)
    /\ \E fail \in FaultChoices :
        LET chk == permission_check(request_user, USER)
            us == permission_check_users(request_user)
            uid == request_user.user_id
            r == Admitted([NewReq("set_ssh_key", uid, uid, USER) EXCEPT !.key = ssh_key], chk)
            name == config_name(uid)
            next == IF fail \/ name \notin ConfigNames
                    \* APIError without "in use", or NotFound: go on to create
                    THEN "sk_create" ELSE "sk_remove"
            cfg == IF next = "sk_remove" THEN ConfigByName(name).id ELSE NoId
            raced == \E q \in Threads \ {p} : Overlaps(q, uid, ssh_key)
        IN
        /\ users' = us
        /\ IF chk # None
           THEN /\ NoFault(fail)
                /\ Return(p, r, 130, chk, us)
           ELSE /\ Fault(fail)
                /\ pc' = [pc EXCEPT ![p] = next]
                /\ req' = [q \in Threads |->
                             IF q = p THEN [r EXCEPT !.cfg = cfg, !.overlap = raced]
                             ELSE IF Overlaps(q, uid, ssh_key) THEN [req[q] EXCEPT !.overlap = TRUE]
                             ELSE req[q]]
                /\ last' = last
    /\ UNCHANGED <<workers, configs, nextId, services, clock>>

\* A removal that ends the request once the old secret is gone.
sk_remove_only(p) ==
    /\ pc[p] = "sk_remove"
    /\ \E fail \in FaultChoices :
        /\ Fault(fail)
        /\ IF fail \/ req[p].cfg \notin ConfigIds
           THEN /\ configs' = configs
                /\ Goto(p, req[p], "sk_create")
           ELSE IF ConfigInUse(req[p].cfg)
           THEN /\ configs' = configs
                /\ Return(p, req[p], 145, ManagerAnswer("KEY_IN_USE_ERROR", {}), users)
           ELSE /\ configs' = configs \ {ConfigById(req[p].cfg)}
                /\ Return(p, [req[p] EXCEPT !.mutated = TRUE], 139,
                          ManagerAnswer("PERMISSION_OK", {}), users)
    /\ UNCHANGED <<users, workers, nextId, services, clock, started, joins>>

sk_remove(p) ==
    /\ pc[p] = "sk_remove"
    /\ \E fail \in FaultChoices :
        /\ Fault(fail)
        /\ IF fail \/ req[p].cfg \notin ConfigIds
           THEN /\ configs' = configs
                /\ Goto(p, req[p], "sk_create")
           ELSE IF ConfigInUse(req[p].cfg)
           THEN /\ configs' = configs
                /\ Return(p, req[p], 145, ManagerAnswer("KEY_IN_USE_ERROR", {}), users)
           ELSE /\ configs' = configs \ {ConfigById(req[p].cfg)}
                /\ Goto(p, [req[p] EXCEPT !.mutated = TRUE], "sk_create")
    /\ UNCHANGED <<users, workers, nextId, services, clock, started, joins>>

sk_create(p) ==
    /\ pc[p] = "sk_create"
    /\ \E fail \in FaultChoices :
        LET name == config_name(req[p].caller) IN
        /\ Fault(fail)
        /\ IF fail \/ name \in ConfigNames
           THEN /\ UNCHANGED <<configs, nextId>>
                /\ Return(p, req[p], 147, Raised("APIError"), users)
           ELSE /\ configs' = configs \cup {[id |-> nextId, name |-> name, data |-> req[p].key,
                                            creator |-> req[p].caller]}
                /\ nextId' = nextId + 1
                /\ Goto(p, [req[p] EXCEPT !.cfg = nextId, !.mutated = TRUE], "sk_reload")
    /\ UNCHANGED <<users, workers, services, clock, started, joins>>

sk_reload(p) ==
    /\ pc[p] = "sk_reload"
    /\ \E fail \in FaultChoices :
        /\ Fault(fail)
        /\ IF fail THEN Return(p, req[p], 148, Raised("APIError"), users)
           ELSE IF req[p].cfg \notin ConfigIds THEN Return(p, req[p], 148, Raised("NotFound"), users)
           ELSE IF ConfigById(req[p].cfg).name # config_name(req[p].caller)
           THEN Return(p, req[p], 151,
                       ManagerAnswer("RUNTIME_ERROR", {"config_name", "docker_config_name"}), users)
           ELSE Goto(p, req[p], "sk_save")
    /\ UNCHANGED <<users, workers, configs, nextId, services, clock, started, joins>>

sk_save(p) ==
    /\ pc[p] = "sk_save"
    /\ users' = User_save_key(users, req[p].caller, req[p].key)
    /\ Return(p, [req[p] EXCEPT !.mutated = TRUE], 159,
              ManagerAnswer("SET_KEY_SUCCESSFUL", NoData),
              User_save_key(users, req[p].caller, req[p].key))
    /\ UNCHANGED <<workers, configs, nextId, services, clock, started, joins, faults>>

(***************************************************************************)
(* /job: permission check, lookups, key check and configs.get; then        *)
(* services.create and reload.                                             *)
(***************************************************************************)
JobRequest(worker_hostname, user_id, expected_duration, gpus) ==
    [worker_hostname |-> worker_hostname, user_id |-> user_id,
     expected_duration |-> expected_duration, gpus |-> gpus]

ReqJob(r) == JobRequest(r.host, r.target, r.duration, r.gpus)

dispatch(p, request_user, job) ==
    /\ Begin(p)
    /\ \E fail \in FaultChoices :
        LET chk == permission_check(request_user, USER)
            us == permission_check_users(request_user)
            r == Admitted([NewReq("job", request_user.user_id, job.user_id, USER)
                             EXCEPT !.host = job.worker_hostname,
                                    !.duration = job.expected_duration, !.gpus = job.gpus,
                                    !.now = clock], chk)
            name == config_name(job.user_id)
        IN
        /\ users' = us
        /\ IF chk # None
           THEN /\ NoFault(fail)
                /\ Return(p, r, 179, chk, us)
           ELSE IF job.worker_hostname \notin workers
           THEN /\ NoFault(fail)
                /\ Return(p, r, 181, Raised("DoesNotExist"), us)
           ELSE IF ~us[job.user_id].exists
           THEN /\ NoFault(fail)
                /\ Return(p, r, 182, Raised("DoesNotExist"), us)
           ELSE IF us[job.user_id].public_ssh_key = NoKey
           THEN /\ NoFault(fail)
                /\ Return(p, r, 184, ManagerAnswer("KEY_MISSING_ERROR", NoData), us)
           ELSE /\ Fault(fail)
                /\ IF fail THEN Return(p, r, 191, Raised("APIError"), us)
                   ELSE IF name \notin ConfigNames
                   THEN Return(p, r, 193, ManagerAnswer("KEY_MISSING_ERROR", NoData), us)
                   ELSE Goto(p, [r EXCEPT !.cfg = ConfigByName(name).id], "dj_create")
    /\ UNCHANGED <<workers, configs, nextId, services, clock>>

dj_create(p) ==
    /\ pc[p] = "dj_create"
    /\ \E fail \in FaultChoices :
        LET svc == ServiceSpec(ReqJob(req[p]), req[p].now, req[p].cfg) IN
        /\ Fault(fail)
        /\ IF fail \/ svc.name \in ServiceNames \/ req[p].cfg \notin ConfigIds
           THEN /\ services' = services
                /\ Return(p, req[p], 195, Raised("APIError"), users)
           ELSE /\ services' = services \cup {svc}
                /\ Return(p, [req[p] EXCEPT !.mutated = TRUE], 216,
                          ManagerAnswer("DISPATCH_OK", {"service.attrs"}), users)
    /\ UNCHANGED <<users, workers, configs, nextId, clock, started, joins>>

(***************************************************************************)
(* /job_list and /list_resources                                           *)
(***************************************************************************)
job_list(p, request_user) ==
    /\ Begin(p)
    /\ \E fail \in FaultChoices :
        LET chk == permission_check(request_user, USER)
            us == permission_check_users(request_user)
            r == Admitted(NewReq("job_list", request_user.user_id, request_user.user_id, USER), chk)
        IN
        /\ users' = us
        /\ IF chk # None
           THEN /\ NoFault(fail)
                /\ Return(p, r, 224, chk, us)
           ELSE /\ Fault(fail)
                /\ IF fail THEN Return(p, r, 230, Raised("APIError"), us)
                   ELSE Return(p, r, 234, ManagerAnswer("JOB_LIST", {"services"}), us)
    /\ UNCHANGED <<workers, configs, nextId, services, clock>>

\* The loop without its test of the reloaded attrs: every node counts as online.
online_workers_all(attrs) == DOMAIN attrs

\* The loop over client.nodes.list(filters={"role": "worker"}): the hostnames
\* of the nodes whose reloaded attrs are ready and active.
online_workers(attrs) ==
    {h \in DOMAIN attrs : attrs[h].State = "ready" /\ attrs[h].Availability = "active"}

\* GPU.by_workers: the Registry's workers among worker_ids (with their GPUs).
GPU_by_workers(worker_ids) == worker_ids \cap workers

list_resources(p, request_user, only_online, only_available) ==
    /\ Begin(p)
    /\ \E fail \in FaultChoices, attrs \in NodeAttrs :
        LET chk == permission_check(request_user, USER)
            us == permission_check_users(request_user)
            r == Admitted(NewReq("list_resources", request_user.user_id, request_user.user_id, USER), chk)
            resources == GPU_by_workers(online_workers(attrs))
        IN
        /\ users' = us
        /\ IF chk # None
           THEN /\ NoFault(fail)
                /\ Return(p, r, 242, chk, us)
           ELSE /\ Fault(fail)
                /\ IF fail THEN Return(p, r, 244, Raised("APIError"), us)
                   ELSE Return(p, [r EXCEPT !.nodes = attrs,
                                            !.flags = <<only_online, only_available>>,
                                            !.listed = resources],
                               255, ManagerAnswer("RESOURCES", {"workers", "gpus"}), us)
    /\ UNCHANGED <<workers, configs, nextId, services, clock>>

(***************************************************************************)
(* The environment: time passes, and a workload ends (it exits, or the     *)
(* external reaper removes it).                                            *)
(***************************************************************************)
Tick ==
    /\ clock < MaxClock
    /\ clock' = clock + 1
    /\ UNCHANGED <<users, workers, configs, nextId, services, pc, req, last, started, joins, faults>>

ServiceEnds ==
    /\ \E s \in services : services' = services \ {s}
    /\ UNCHANGED <<users, workers, configs, nextId, clock, pc, req, last, started, joins, faults>>

RequestUsers == {RequestUser(u, n) : u \in Users, n \in Usernames}

JobRequests == {JobRequest(h, u, d, g) : h \in Hosts, u \in Users, d \in Durations, g \in GpuRequests}

Next ==
    \/ \E p \in Threads, h \in Hosts : add_worker(p, h)
    \/ \E p \in Threads, ru \in RequestUsers, u \in Users, l \in {OWNER, ADMIN, USER} :
          set_permission(p, ru, u, l)
    \/ \E p \in Threads, ru \in RequestUsers, u \in Users : register_user(p, ru, u)
    \/ \E p \in Threads, ru \in RequestUsers, k \in Keys : set_ssh_key(p, ru, k)
    \/ \E p \in Threads : sk_remove(p)
    \/ \E p \in Threads : sk_create(p)
    \/ \E p \in Threads : sk_reload(p)
    \/ \E p \in Threads : sk_save(p)
    \/ \E p \in Threads, ru \in RequestUsers : check_ssh_key(p, ru)
    \/ \E p \in Threads, ru \in RequestUsers, j \in JobRequests : dispatch(p, ru, j)
    \/ \E p \in Threads : dj_create(p)
    \/ \E p \in Threads, ru \in RequestUsers : job_list(p, ru)
    \/ \E p \in Threads, ru \in RequestUsers, oo \in BOOLEAN, oa \in BOOLEAN :
          list_resources(p, ru, oo, oa)
    \/ Tick
    \/ ServiceEnds

Spec == Init /\ [][Next]_vars

(***************************************************************************)
(* Properties.  They read the request that completed last (`last`) and the *)
(* requests being served (req).                                            *)
(***************************************************************************)
AllIdle == \A p \in Threads : pc[p] = "idle"

PermissionFailure(r) ==
    r.kind = "answer" /\ r.code \in {"PERMISSION_ERROR", "NOT_REGISTERED_ERROR"}

\* The caller's stored level admits it at the required level.
LevelAdmits(r) == r.lvl # NoLevel /\ r.lvl <= r.required

\* C1: permission_check admits the caller iff its stored level is <= the
\* required level (a registered caller, when User is required), and in every
\* other case it returns a failure answer.
C1_AdmitIffLevel ==
    /\ \A p \in Threads : req[p].admit = "ok" => LevelAdmits(req[p])
    /\ last.admit = "ok" => LevelAdmits(last)
    /\ last.admit = "denied" => ~LevelAdmits(last) /\ PermissionFailure(last)

\* C2: /set_permission grants the level and answers RegistrationSuccessful
\* only when the actor passes admit(actor, higher_permission(L)); an actor that
\* fails it gets a permission failure and the target's level is unchanged.
C2_SetPermissionGated ==
    last.op = "set_permission" =>
        /\ (last.code = "REGISTRATION_SUCCESSFUL" => last.admit = "ok" /\ last.mutated)
        /\ (last.admit = "denied" =>
               /\ last.kind = "answer" /\ last.code = "PERMISSION_ERROR"
               /\ last.sameLevel)

\* C3: in every entry point the permission check comes first: nothing is
\* mutated in the Registry, the secret store or the orchestrator by a request
\* whose caller was not admitted, and such a request ends with the permission
\* failure.  (The contact-info upsert of the check itself is not counted.)
C3_PermissionCheckFirst ==
    /\ \A p \in Threads : req[p].mutated => req[p].admit = "ok"
    /\ last.mutated => last.admit = "ok"
    /\ last.admit = "denied" => PermissionFailure(last) /\ ~last.mutated

\* C4: a job request of an admitted requester for an existing worker and a
\* target user whose public_ssh_key is empty is answered KeyMissing and submits
\* no workload; every workload's owner holds a key.
C4_NoKeyNoDispatch ==
    /\ (last.op = "job" /\ last.admit = "ok" /\ last.site \notin {181, 182}
          /\ ~last.hadKey) =>
            last.kind = "answer" /\ last.code = "KEY_MISSING_ERROR" /\ ~last.mutated
    /\ \A s \in services : hasKey(users[s.label_user_id])

\* C5: a set_ssh_key that returns success leaves the key set; one that ends in
\* any error leaves hasKey as it was before the call.
C5_SetKeyThenHasKey ==
    (last.op = "set_ssh_key" /\ ~last.overlap) =>
        IF last.kind = "answer" /\ last.code = "SET_KEY_SUCCESSFUL"
        THEN last.hasKey
        ELSE last.hasKey = last.hadKey

\* C6: once two overlapping set_ssh_key requests of one user (with different
\* keys) have both finished, exactly one secret prefix+user exists and the
\* User record's key equals its data.
C6_ConcurrentSetKeyOneWinner ==
    (AllIdle /\ faults = 0 /\ last.op = "set_ssh_key" /\ last.overlap) =>
        LET mine == {c \in configs : c.name = <<CONFIG_PREFIX, last.caller>>} IN
        /\ Cardinality(mine) = 1
        /\ \A c \in mine : users[last.caller].public_ssh_key = c.data

\* C7: in every state the secret store holds at most one secret per user, and
\* every secret created for user u is named prefix+u.
C7_OneSecretPerUser ==
    /\ \A c1, c2 \in configs : c1.creator = c2.creator => c1 = c2
    /\ \A c \in configs : c.name = <<CONFIG_PREFIX, c.creator>>

\* Two set_ssh_key requests of one user in flight, one has created its secret
\* and the other is about to create its own.
C7_Witness ==
    \E p, q \in Threads :
        /\ pc[p] = "sk_reload" /\ pc[q] = "sk_create"
        /\ req[p].caller = req[q].caller
        /\ \E c \in configs : c.creator = req[p].caller

\* C8: dispatch without a credential fails with KeyMissing; the set_ssh_key
\* that then stores the key succeeds; the retried dispatch returns DispatchOk
\* for the job's user id.
C8_RetryAfterSetKey ==
    /\ (last.op = "job" /\ last.site = 184) =>
          last.kind = "answer" /\ last.code = "KEY_MISSING_ERROR"
    /\ (last.op = "set_ssh_key" /\ last.site = 159) =>
          last.kind = "answer" /\ last.code = "SET_KEY_SUCCESSFUL"
    /\ (last.op = "job" /\ last.site = 216) =>
          last.kind = "answer" /\ last.code = "DISPATCH_OK" /\ last.hadKey

\* C9: when the removal fails because the secret is in use, set_ssh_key
\* returns KeyInUse and changes nothing.
C9_KeyInUseLeavesState ==
    (last.op = "set_ssh_key" /\ last.site = 145) =>
        /\ last.kind = "answer" /\ last.code = "KEY_IN_USE_ERROR"
        /\ ~last.mutated
        /\ last.sameKey

C10_Answers ==
    (last.op = "register_user" /\ last.admit = "ok" /\ last.site # 122) =>
        IF ~last.wasRegistered
        THEN /\ last.kind = "answer" /\ last.code = "REGISTRATION_SUCCESSFUL"
             /\ last.isRegistered
        ELSE /\ last.kind = "answer" /\ last.code = "ALREADY_REGISTERED_ERROR"
             /\ last.sameLevel /\ last.sameKey
             /\ (last.target # last.caller => last.sameRecord)

StaysRegistered ==
    \A u \in Users : User_is_registered(users, u) => User_is_registered(users', u)

C11_EscalationStrict ==
    last.op = "set_permission" =>
        /\ last.required = higher_permission(last.level)
        /\ last.required < last.level
        /\ (last.code = "REGISTRATION_SUCCESSFUL" => last.lvl # NoLevel /\ last.lvl < last.level)

\* C12: a job request of an admitted requester that names a hostname with no
\* Worker record is answered WorkerNotFound and submits no workload.
C12_WorkerNotFound ==
    (last.op = "job" /\ last.admit = "ok" /\ last.site = 181) =>
        /\ last.kind = "answer" /\ last.code = "WORKER_NOT_FOUND_ERROR"
        /\ ~last.mutated

\* A failed call to the secret store or the orchestrator ends the request with
\* an error answer that carries the message.
C13_Surfaced ==
    (last.op \in {"job", "set_ssh_key"} /\ last.site \in {147, 191, 195}) =>
        /\ last.kind = "answer" /\ last.code \in ReturnCodes
        /\ "message" \in last.data

\* set_ssh_key goes on to create the secret only when the lookup found none,
\* or when its removal took the secret it found out of the store.
C13_NoSwallow ==
    \A p \in Threads :
        /\ (pc[p] = "idle" /\ pc'[p] = "sk_create") =>
               config_name(req'[p].caller) \notin ConfigNames
        /\ (pc[p] = "sk_remove" /\ pc'[p] = "sk_create") =>
               req[p].cfg \notin {c.id : c \in configs'}

\* C13: every failure of an outbound call of dispatch or set_ssh_key (secret
\* lookup, removal other than absence, creation, workload creation) ends the
\* request with a structured error code and the message; none is swallowed
\* with the operation going on, and no backend exception leaves the handler.
C13_OutboundFailuresSurfaced == []C13_Surfaced /\ [][C13_NoSwallow]_vars

\* C14: every request, on every path, ends with an answer envelope: a code of
\* ReturnCodes and a data mapping.
C14_AlwaysEnvelope ==
    last.op # "none" =>
        /\ last.kind = "answer"
        /\ last.code \in ReturnCodes
        /\ last.data # NoData

\* A dispatch that succeeds creates a workload whose environment lists, one
\* entry per requested GPU, the resource variable with that GPU's uuid, whose
\* expiry label decodes to the request's now + duration hours, and whose name
\* carries the same now.
C15_Embeds ==
    \A p \in Threads :
        (pc[p] = "dj_create" /\ pc'[p] = "idle" /\ last'.site = 216) =>
            \E s \in services' \ services :
                /\ DOMAIN s.env = DOMAIN req[p].gpus
                /\ \A i \in DOMAIN s.env :
                       s.env[i] = <<SWARM_RESOURCE, req[p].gpus[i].uuid>>
                /\ strptime(s.label_expire) = req[p].now + 3600 * req[p].duration
                /\ s.name = <<req[p].target, strftime(req[p].now)>>
                /\ strptime(s.name[2]) = req[p].now

\* C15: for every successful dispatch the workload's resource-selection
\* environment enumerates exactly the requested GPU uuids, and its expiry label
\* encodes now + duration hours to the second, with the now of the workload's
\* name; decoding the label gives that instant back.
C15_GpusAndExpiryEmbedded == [][C15_Embeds]_vars

\* A workload dispatched at a second other than 0, with both requested GPUs.
C15_Witness ==
    /\ last.op = "job" /\ last.site = 216
    /\ \E s \in services :
          /\ s.now % 60 # 0
          /\ Len(s.env) = 2
          /\ s.label_expire = strftime(s.now + 3600)

\* C20: workload names are {user_id}_{stamp}, distinct whenever the target
\* users differ or the dispatch instants fall in different seconds: no two
\* workloads of the orchestrator share a name, and a dispatch about to create
\* its workload has a name no workload of another user or second holds.
C20_UniqueNames ==
    /\ \A s1, s2 \in services :
          (s1.label_user_id # s2.label_user_id \/ s1.now # s2.now) => s1.name # s2.name
    /\ \A s1, s2 \in services : s1.name = s2.name => s1 = s2
    /\ \A p \in Threads : pc[p] = "dj_create" =>
          \A s \in services :
              (s.label_user_id # req[p].target \/ s.now # req[p].now) =>
                  s.name # ServiceSpec(ReqJob(req[p]), req[p].now, req[p].cfg).name

\* Two workloads of one user, dispatched at different seconds.
C20_Witness ==
    \E s1, s2 \in services :
        /\ s1.label_user_id = s2.label_user_id
        /\ s1.now # s2.now

\* C16: /job_list of an admitted requester answers JobList with the workloads
\* the orchestrator holds whose owner label is the requester's id (whoever
\* dispatched them), and no workload labelled with another user.
C16_JobListByOwnerLabel ==
    (last.op = "job_list" /\ last.admit = "ok" /\ last.site = 234) =>
        /\ last.kind = "answer" /\ last.code = "JOB_LIST"
        /\ last.data = {"services"}

\* C19: a dispatch creates a workload for a target user other than the
\* requester only when the requester's level is stronger than User.
C19_OtherTargetPrivileged ==
    (last.op = "job" /\ last.site = 216 /\ last.target # last.caller) =>
        last.lvl \in {OWNER, ADMIN}

ReadyAndActive(attrs, h) ==
    attrs[h].State = "ready" /\ attrs[h].Availability = "active"

\* No node that reported not ready or not active is in the answer.
C17_OnlyOnline ==
    (last.op = "list_resources" /\ last.site = 255) =>
        \A h \in last.listed : h \in Hosts /\ ReadyAndActive(last.nodes, h)

\* The answer is the Registry's workers among the ready and active nodes,
\* whatever the flags are.
C17_FlagsIgnored ==
    (last'.op = "list_resources" /\ last'.site = 255 /\ last' # last) =>
        last'.listed = {h \in workers : ReadyAndActive(last'.nodes, h)}

\* C17: for every value of only_online and only_available, /list_resources
\* returns workers and GPUs only for worker nodes whose reloaded status is
\* ready and whose availability is active; the result does not depend on
\* the flags.
C17_ListResourcesOnlineOnly == []C17_OnlyOnline /\ [][C17_FlagsIgnored]_vars

\* Both flags off, a joined worker whose node is ready but drained: not listed.
C17_Witness ==
    /\ last.op = "list_resources" /\ last.site = 255
    /\ last.flags = <<FALSE, FALSE>>
    /\ \E h \in workers :
          /\ last.nodes[h].State = "ready" /\ last.nodes[h].Availability = "drain"
          /\ h \notin last.listed

\* No set_ssh_key of the user is being served.
NoSetKeyInFlight(user_id) ==
    \A p \in Threads : ~(pc[p] # "idle" /\ req[p].op = "set_ssh_key" /\ req[p].caller = user_id)

\* C18: set_ssh_key behaves the same from a state without a prior secret and
\* from a state whose prior secret it removes: served alone and with the
\* backends working, it ends in both cases at the same return with the same
\* outcome, one secret prefix+user holding the new key, and the User record's
\* key equal to it.
C18_SetKeyIdempotentOnAbsence ==
    (last.op = "set_ssh_key" /\ last.admit = "ok" /\ ~last.overlap
       /\ faults = 0 /\ last.site # 145) =>
        /\ last.site = 159
        /\ last.kind = ManagerAnswer("SET_KEY_SUCCESSFUL", NoData).kind
        /\ last.code = ManagerAnswer("SET_KEY_SUCCESSFUL", NoData).code
        /\ last.hasKey
        /\ NoSetKeyInFlight(last.caller) =>
              LET mine == {c \in configs : c.name = config_name(last.caller)} IN
              /\ Cardinality(mine) = 1
              /\ \A c \in mine : c.data = users[last.caller].public_ssh_key

\* A set_ssh_key served alone that found the user's prior secret and removed it.
C18_Witness ==
    /\ last.op = "set_ssh_key" /\ last.site = 159
    /\ ~last.overlap /\ faults = 0
    /\ last.hadKey /\ ~last.sameKey
    /\ NoSetKeyInFlight(last.caller)

\* A step that changes a user's level or registration status is the step of
\* an admitted /register_user or /set_permission for that user.
C21_Frame ==
    \A u \in Users :
        (\/ users'[u].permission_level # users[u].permission_level
         \/ Registered(users'[u]) # Registered(users[u])) =>
            /\ started' = started + 1
            /\ last'.op \in {"register_user", "set_permission"}
            /\ last'.target = u
            /\ last'.admit = "ok"
            /\ last'.mutated

\* C21: a user's permission level and registration status change only through
\* /register_user and /set_permission after the acting caller passed the
\* permission check; the check's contact-info upsert and /set_ssh_key,
\* /check_ssh_key, /job, /job_list, /list_resources and /join leave them
\* unchanged, whatever their outcome.
C21_LevelChangesOnlyByGrant == [][C21_Frame]_vars

\* A user registered through /register_user has stored a key: level still User.
C21_Witness ==
    /\ last.op = "set_ssh_key" /\ last.site = 159
    /\ last.caller # OwnerId
    /\ last.hasKey /\ ~last.hadKey
    /\ users[last.caller].permission_level = USER

\* C22: as long as the set_ssh_key requests of a user have not overlapped, in
\* every state where none of them is being served, a populated key field of
\* the User record means a secret prefix+user exists and holds the same key.
C22_KeyCacheConsistent ==
    \A u \in Users :
        (u \notin last.raced /\ NoSetKeyInFlight(u) /\ hasKey(users[u])) =>
            \E c \in configs :
                /\ c.name = config_name(u)
                /\ c.data = users[u].public_ssh_key

====
